---- MODULE Spec2Model ----
(***************************************************************************)
(* A model of discord_emoji.py: main() parses its arguments, enumerates    *)
(* guild records from the remote service under one of three strategies,    *)
(* turns every record into download jobs (writing the guild's info.json),  *)
(* filters the jobs that are already on disk and runs the rest through a   *)
(* ThreadPool(3) with imap_unordered.                                      *)
(*                                                                         *)
(* Strings that the program inspects character by character (names) are    *)
(* sequences of one-character strings.  Paths and URLs are records of the  *)
(* parts the program assembles them from.                                  *)
(***************************************************************************)
EXTENDS Integers, Sequences, FiniteSets, TLC

(***************************************************************************)
(* Bounds of the model.                                                    *)
(***************************************************************************)
\* longest list of ids given to --guild-id / --source-emoji-id
MaxIds == 1

(***************************************************************************)
(* Program constants.                                                      *)
(***************************************************************************)
\* ThreadPool(3)
PoolSize == 3
\* httpx.codes.NOT_FOUND
NOT_FOUND == 404

\* an argument that was not supplied (argparse's None): falsy, like an empty list
None == <<>>

(***************************************************************************)
(* Characters and clean_name_for_fs.                                       *)
(***************************************************************************)
\* str.isalnum on the characters the model uses
IsAlnum(c) == c \in {"a", "b", "g", "h", "s", "o", "1", "2"}

\* the characters str.strip() removes
IsSpace(c) == c \in {" ", "\t", "\n"}

\* c.isalnum() or c in " _-"
KeepChar(c) == IsAlnum(c) \/ c \in {" ", "_", "-"}

RECURSIVE LStrip(_)
LStrip(s) == IF s # <<>> /\ IsSpace(Head(s)) THEN LStrip(Tail(s)) ELSE s

RECURSIVE RStrip(_)
RStrip(s) ==
    IF s # <<>> /\ IsSpace(s[Len(s)]) THEN RStrip(SubSeq(s, 1, Len(s) - 1)) ELSE s

\* str.strip()
Strip(s) == RStrip(LStrip(s))

\* the cleaning without the strip()
CleanNameUnstripped(name) == SelectSeq(name, KeepChar)

\* "".join(c for c in name if c.isalnum() or c in " _-").strip()
clean_name_for_fs(name) == Strip(SelectSeq(name, KeepChar))

(***************************************************************************)
(* URLs.                                                                   *)
(***************************************************************************)
\* "gif" if animated else "png"
ExtOf(animated) == IF animated THEN "gif" ELSE "png"

\* https://cdn.discordapp.com/emojis/{emoji_id}.{ext}?v=1
get_emoji_url(emoji_id, animated) ==
    [host |-> "cdn.discordapp.com", dir |-> "emojis", id |-> emoji_id,
     ext |-> ExtOf(animated)]

\* https://media.discordapp.net/stickers/{sticker_id}.png?size=1024
get_sticker_url(sticker_id) ==
    [host |-> "media.discordapp.net", dir |-> "stickers", id |-> sticker_id,
     ext |-> "png"]

\* https://discord.com/api/v10/users/@me/guilds
MyGuildsUrl == [host |-> "discord.com", path |-> "api/v10/users/@me/guilds", id |-> 0]

\* https://discord.com/api/v10/guilds/{guild_id}
GuildUrl(guild_id) == [host |-> "discord.com", path |-> "api/v10/guilds", id |-> guild_id]

\* https://discord.com/api/v9/emojis/{emoji_id}/source
EmojiSourceUrl(emoji_id) ==
    [host |-> "discord.com", path |-> "api/v9/emojis/source", id |-> emoji_id]

(***************************************************************************)
(* Paths under root_path = "download".  A path is the guild directory, the *)
(* subdirectory under it ("" for the guild directory itself), the file     *)
(* stem and the extension.                                                 *)
(***************************************************************************)
InfoPath(guild_path) ==
    [dir |-> guild_path, sub |-> "", stem |-> <<"i", "n", "f", "o">>, ext |-> "json"]

AssetPath(guild_path, sub, stem, ext) ==
    [dir |-> guild_path, sub |-> sub, stem |-> stem, ext |-> ext]

\* job.dest_path.parent and its parents below root_path
ParentDirs(path) ==
    {[dir |-> path.dir, sub |-> ""], [dir |-> path.dir, sub |-> path.sub]}

(***************************************************************************)
(* dict helpers.                                                           *)
(***************************************************************************)
\* d.get(key, default)
Get(d, key, default) == IF key \in DOMAIN d THEN d[key] ELSE default

\* a merge where the left operand's value stays
DictMergeLeftWins(a, b) ==
    [k \in (DOMAIN a) \cup (DOMAIN b) |-> IF k \in DOMAIN a THEN a[k] ELSE b[k]]

\* a | b : the keys of both, b's value where both have the key
DictMerge(a, b) ==
    [k \in (DOMAIN a) \cup (DOMAIN b) |-> IF k \in DOMAIN b THEN b[k] ELSE a[k]]

(***************************************************************************)
(* The remote service: what its endpoints answer with when they succeed.   *)
(* Guild 1 has two emojis whose names clean to the same file name and no   *)
(* "stickers" key; guild 2 has an animated emoji and a sticker.  The       *)
(* membership list holds summaries whose name is older than the detail's.  *)
(***************************************************************************)
GuildIds == {1, 2}

\* GET /guilds/{id}
GuildDetail(id) ==
    IF id = 1
    THEN [id |-> 1, name |-> <<"g", "/", "1">>,
          emojis |-> << [id |-> 11, name |-> <<"a">>, animated |-> FALSE],
                        [id |-> 12, name |-> <<"a", "!">>, animated |-> FALSE] >>]
    ELSE [id |-> 2, name |-> <<" ", "h">>,
          emojis |-> << [id |-> 21, name |-> <<"b">>, animated |-> TRUE] >>,
          stickers |-> << [id |-> 22, name |-> <<"s", ":">>] >>]

\* GET /users/@me/guilds
MyGuilds ==
    << [id |-> 1, name |-> <<"o">>, owner |-> TRUE],
       [id |-> 2, name |-> <<" ", "h">>, owner |-> FALSE] >>

\* the emoji ids --source-emoji-id is given
SourceEmojiIds == {11, 21}

\* GET /emojis/{id}/source
EmojiSource(emoji_id) ==
    [type |-> "GUILD", guild |-> GuildDetail(IF emoji_id \in {11, 12} THEN 1 ELSE 2)]

\* the statuses the API answers an enumeration request with
ApiStatuses == {200, 401}

\* the statuses the CDN answers an asset fetch with
CdnStatuses == {200, 404, 500}

\* Response.is_success, which raise_for_status() tests
IsSuccess(st) == st >= 200 /\ st < 300

(***************************************************************************)
(* DownloadJob and get_downloads_from_guild_info.                          *)
(***************************************************************************)
DownloadJob(description, source_url, dest_path) ==
    [description |-> description, source_url |-> source_url, dest_path |-> dest_path]

\* root_path / clean_name_for_fs(guild["name"])
GuildPath(guild) == clean_name_for_fs(guild.name)

EmojiJob(guild, emoji) ==
    DownloadJob(<<guild.name, emoji.name>>,
                get_emoji_url(emoji.id, emoji.animated),
                AssetPath(GuildPath(guild), "emojis",
                          clean_name_for_fs(emoji.name), ExtOf(emoji.animated)))

StickerJob(guild, sticker) ==
    DownloadJob(<<guild.name, sticker.name>>,
                get_sticker_url(sticker.id),
                AssetPath(GuildPath(guild), "stickers",
                          clean_name_for_fs(sticker.name), "png"))

\* a builder that goes through the stickers before the emojis
JobsOfGuildStickersFirst(guild) ==
    LET emojis == Get(guild, "emojis", <<>>)
        stickers == Get(guild, "stickers", <<>>)
    IN  [i \in 1..Len(stickers) |-> StickerJob(guild, stickers[i])]
        \o [i \in 1..Len(emojis) |-> EmojiJob(guild, emojis[i])]

\* the jobs the generator yields: the emojis' first, then the stickers'
JobsOfGuild(guild) ==
    LET emojis == Get(guild, "emojis", <<>>)
        stickers == Get(guild, "stickers", <<>>)
    IN  [i \in 1..Len(emojis) |-> EmojiJob(guild, emojis[i])]
        \o [i \in 1..Len(stickers) |-> StickerJob(guild, stickers[i])]

(***************************************************************************)
(* The file system: disk maps every existing file to its content, dirs is  *)
(* the set of existing directories.                                        *)
(***************************************************************************)
\* json.dumps(guild, sort_keys=True, indent=2)
JsonDump(guild) == [kind |-> "json", of |-> guild]

\* resp.content of a successful fetch of url
Payload(url) == [kind |-> "bytes", of |-> url]

\* a file some earlier run or another program left
OldContent == [kind |-> "old"]

\* a file another process writes while this run's pool is at work
OtherContent == [kind |-> "other"]

\* a write that leaves a file that exists as it is
WriteFileIfAbsent(d, path, content) ==
    [q \in (DOMAIN d) \cup {path} |-> IF q \in DOMAIN d THEN d[q] ELSE content]

\* Path.write_text / Path.write_bytes
WriteFile(d, path, content) ==
    [q \in (DOMAIN d) \cup {path} |-> IF q = path THEN content ELSE d[q]]

\* mkdir that makes the directory anew, dropping what it held
MkdirGuildAnew(d, guild_path) ==
    [q \in {path \in DOMAIN d : path.dir # guild_path} |-> d[q]]

\* guild_path.mkdir(exist_ok=True, parents=True): the files stay
MkdirGuild(d, guild_path) == d

\* Path.is_file
IsFile(d, path) == path \in DOMAIN d

\* DownloadJob.done
JobDone(d, job) == IsFile(d, job.dest_path)

\* every dest_path a job of the remote guilds can have
AssetPaths ==
    UNION { {JobsOfGuild(GuildDetail(g))[i].dest_path :
                i \in 1..Len(JobsOfGuild(GuildDetail(g)))} : g \in GuildIds }

(***************************************************************************)
(* The inputs of a run: the command line and the environment.              *)
(***************************************************************************)
\* the non-empty lists of at most n ids (nargs="+")
IdLists(ids, n) == UNION { [1..k -> ids] : k \in 1..n }

\* how many of the three selectors the command line supplies
SelectorCount(a) ==
    (IF a.my_guilds THEN 1 ELSE 0) + (IF a.guild_ids # None THEN 1 ELSE 0)
        + (IF a.source_emoji_ids # None THEN 1 ELSE 0)

\* ap.parse_args(): any combination of the three options; a command line
\* that gives several selectors gives each list as one id, the first guild's
ArgSpace ==
    { a \in [my_guilds : BOOLEAN,
             guild_ids : {None} \cup IdLists(GuildIds, MaxIds),
             source_emoji_ids : {None} \cup IdLists(SourceEmojiIds, MaxIds)] :
        SelectorCount(a) > 1 =>
            /\ a.guild_ids \in {None, <<1>>}
            /\ a.source_emoji_ids \in {None, <<11>>} }

\* os.environ.get("DISCORD_USER_TOKEN"): unset, empty or set
NoEnv == "<unset>"
Tokens == {NoEnv, "", "t0k3n"}

\* a check that refuses an unset variable only
TokenMissingOnlyUnset(tok) == tok = NoEnv

\* not token_from_env
TokenMissing(tok) == tok = NoEnv \/ tok = ""

\* the if/elif chain that picks the generator
Strategy(a) ==
    IF a.my_guilds THEN "my_guilds"
    ELSE IF a.guild_ids # None THEN "guild_ids"
    ELSE IF a.source_emoji_ids # None THEN "source_emoji_ids"
    ELSE "none"

(***************************************************************************)
(* State.                                                                  *)
(***************************************************************************)
VARIABLES
    args,       \* the parsed command line
    token,      \* DISCORD_USER_TOKEN
    disk,       \* the files under root_path and their content
    dirs,       \* the directories under root_path
    pc,         \* where main() is
    listed,     \* get_my_guilds_info has fetched the membership list
    todo,       \* what the generator's for loop has still to go through
    jobs,       \* the accumulated job list (jobs before line 185)
    work,       \* the filtered job list (jobs from line 185 on)
    nextJob,    \* the index in work of the next task the pool hands out
    busy,       \* the tasks the pool's worker threads are running
    fetched,    \* the tasks whose fetch of source_url has been issued
    status,     \* the status each task's fetch returned (0: none yet)
    result,     \* what each download_job call returned
    outqueue,   \* the finished tasks main() has not consumed, oldest first
    consumed,   \* how many results main()'s for loop has consumed
    reqLog,     \* the statuses of this run's enumeration requests, in order
    reqUrls,    \* the URLs of this run's enumeration requests, in order
    disk0,      \* the files that existed when this run started
    rerun,      \* this is the second run of main()
    prev        \* how the previous run ended

vars == <<args, token, disk, dirs, pc, listed, todo, jobs, work, nextJob, busy,
          fetched, status, result, outqueue, consumed, reqLog, reqUrls, disk0, rerun,
          prev>>

inputVars == <<args, token>>
fsVars == <<disk, dirs>>
enumVars == <<listed, todo, jobs, reqLog, reqUrls>>
poolVars == <<nextJob, busy, fetched, status, result, outqueue, consumed>>
runVars == <<disk0, rerun, prev>>

\* a pool with one worker thread more
PoolWorkersOneMore == PoolSize + 1

\* the number of worker threads of the pool: ThreadPool(3)
PoolWorkers == PoolSize

\* a worker thread is idle: each runs one task at a time
IdleWorker == Cardinality(busy) < PoolWorkers

\* the directories that hold the files of d
DirsOf(d) == UNION { ParentDirs(path) : path \in DOMAIN d }

NoPrev == [ended |-> "never", files |-> {}, notfound |-> FALSE, fetches |-> 0]

Init ==
    /\ args \in ArgSpace
    /\ token \in Tokens
    /\ \E present \in SUBSET AssetPaths :
          /\ disk = [path \in present |-> OldContent]
          /\ dirs = DirsOf(disk)
          /\ disk0 = present
    /\ pc = "start"
    /\ listed = FALSE
    /\ todo = <<>>
    /\ jobs = <<>>
    /\ work = <<>>
    /\ nextJob = 1
    /\ busy = {}
    /\ fetched = {}
    /\ status = <<>>
    /\ result = <<>>
    /\ outqueue = <<>>
    /\ consumed = 0
    /\ reqLog = <<>>
    /\ reqUrls = <<>>
    /\ rerun = FALSE
    /\ prev = NoPrev

(***************************************************************************)
(* main(), up to the loop over the generator.                              *)
(***************************************************************************)
\* lines 154-177: the token check, then the choice of the generator; a
\* generator issues no request before the loop asks it for its first guild
ParseArgs ==
    /\ pc = "start"
    /\ IF TokenMissing(token) \/ Strategy(args) = "none"
       THEN pc' = "usage_error" /\ todo' = todo
       ELSE /\ pc' = "enum"
            /\ todo' = CASE Strategy(args) = "my_guilds" -> <<>>
                         [] Strategy(args) = "guild_ids" -> args.guild_ids
                         [] OTHER -> args.source_emoji_ids
    /\ UNCHANGED <<inputVars, fsVars, listed, jobs, reqLog, reqUrls, work, poolVars,
                   runVars>>

\* a status check that is left out
RaisesNever(st) == FALSE

\* guild_resp.raise_for_status() raises
RaisesForStatus(st) == ~IsSuccess(st)

\* a loop body that leaves the writing of info.json for later
BuildJobsWithoutInfo(guild) ==
    /\ dirs' = dirs \cup {[dir |-> GuildPath(guild), sub |-> ""]}
    /\ disk' = disk
    /\ jobs' = jobs \o JobsOfGuild(guild)

\* get_downloads_from_guild_info and jobs.extend for one yielded guild
BuildJobs(guild) ==
    /\ dirs' = dirs \cup {[dir |-> GuildPath(guild), sub |-> ""]}
    /\ disk' = WriteFile(MkdirGuild(disk, GuildPath(guild)),
                         InfoPath(GuildPath(guild)), JsonDump(guild))
    /\ jobs' = jobs \o JobsOfGuild(guild)

\* a request of the generator failed: the exception leaves main()
EnumFails ==
    /\ pc' = "enum_failed"
    /\ UNCHANGED <<fsVars, listed, todo, jobs>>

\* get_my_guilds_info, lines 45-47: the membership list
ListMyGuilds ==
    /\ pc = "enum" /\ Strategy(args) = "my_guilds" /\ ~listed
    /\ reqUrls' = Append(reqUrls, MyGuildsUrl)
    /\ \E st \in ApiStatuses :
          /\ reqLog' = Append(reqLog, st)
          /\ IF RaisesForStatus(st)
             THEN EnumFails
             ELSE /\ listed' = TRUE
                  /\ todo' = MyGuilds
                  /\ UNCHANGED <<pc, fsVars, jobs>>
    /\ UNCHANGED <<inputVars, work, poolVars, runVars>>

\* get_my_guilds_info, lines 48-56, and the loop body for the guild it yields
FetchMyGuild ==
    /\ pc = "enum" /\ Strategy(args) = "my_guilds" /\ listed /\ todo # <<>>
    /\ reqUrls' = Append(reqUrls, GuildUrl(Head(todo).id))
    /\ \E st \in ApiStatuses :
          /\ reqLog' = Append(reqLog, st)
          /\ IF RaisesForStatus(st)
             THEN EnumFails
             ELSE /\ BuildJobs(DictMerge(Head(todo), GuildDetail(Head(todo).id)))
                  /\ todo' = Tail(todo)
                  /\ UNCHANGED <<pc, listed>>
    /\ UNCHANGED <<inputVars, work, poolVars, runVars>>

\* get_guild_infos_by_ids and the loop body for the guild it yields
FetchGuildById ==
    /\ pc = "enum" /\ Strategy(args) = "guild_ids" /\ todo # <<>>
    /\ reqUrls' = Append(reqUrls, GuildUrl(Head(todo)))
    /\ \E st \in ApiStatuses :
          /\ reqLog' = Append(reqLog, st)
          /\ IF RaisesForStatus(st)
             THEN EnumFails
             ELSE /\ BuildJobs(GuildDetail(Head(todo)))
                  /\ todo' = Tail(todo)
                  /\ UNCHANGED <<pc, listed>>
    /\ UNCHANGED <<inputVars, work, poolVars, runVars>>

\* get_guild_infos_by_source_emoji_ids and the loop body for the guild it yields
FetchEmojiSource ==
    /\ pc = "enum" /\ Strategy(args) = "source_emoji_ids" /\ todo # <<>>
    /\ reqUrls' = Append(reqUrls, EmojiSourceUrl(Head(todo)))
    /\ \E st \in ApiStatuses :
          /\ reqLog' = Append(reqLog, st)
          /\ IF RaisesForStatus(st)
             THEN EnumFails
             ELSE /\ BuildJobs(EmojiSource(Head(todo)).guild)
                  /\ todo' = Tail(todo)
                  /\ UNCHANGED <<pc, listed>>
    /\ UNCHANGED <<inputVars, work, poolVars, runVars>>

\* the generator is exhausted
Exhausted ==
    /\ todo = <<>>
    /\ Strategy(args) = "my_guilds" => listed

\* a filter that keeps every job
FilterJobsKeepsAll(d, js) == js

\* a filter with the test the wrong way round
FilterJobsKeepsDone(d, js) == SelectSeq(js, LAMBDA job : IsFile(d, job.dest_path))

\* [job for job in jobs if not job.done]
FilterJobs(d, js) == SelectSeq(js, LAMBDA job : ~JobDone(d, job))

\* lines 181-192: the loop over the generator ends, the jobs are filtered and,
\* if any is left, the pool is created and handed the jobs
Filter ==
    /\ pc = "enum" /\ Exhausted
    /\ work' = FilterJobs(disk, jobs)
    /\ pc' = IF work' # <<>> THEN "exec" ELSE "done"
    /\ status' = [i \in 1..Len(work') |-> 0]
    /\ result' = [i \in 1..Len(work') |-> "none"]
    /\ UNCHANGED <<inputVars, fsVars, enumVars, nextJob, busy, fetched, outqueue,
                   consumed, runVars>>

(***************************************************************************)
(* The pool: ThreadPool(3) and pool.imap_unordered(bound_download_job,     *)
(* jobs).  The tasks are handed to idle workers one at a time, in the      *)
(* order of the list; a finished task's result goes to the queue main()'s  *)
(* for loop reads from.  The worker threads are alike, so the state holds  *)
(* the set of tasks they are running, not which thread runs which.         *)
(***************************************************************************)
\* download_job without the re-check of job.done
SkipsFetchNever(d, job) == FALSE

\* if job.done: return (job, True)
SkipsFetch(d, job) == JobDone(d, job)

\* download_job without the not-found case
IsNotFoundNever(st) == FALSE

\* resp.status_code == httpx.codes.NOT_FOUND
IsNotFound(st) == st = NOT_FOUND

\* download_job, lines 114-118: an idle worker takes the next task, checks
\* job.done and either returns at once or makes the parent directory and
\* issues the fetch
StartJob ==
    /\ pc = "exec"
    /\ IdleWorker
    /\ nextJob <= Len(work)
    /\ nextJob' = nextJob + 1
    /\ IF SkipsFetch(disk, work[nextJob])
       THEN /\ result' = [result EXCEPT ![nextJob] = "ok"]
            /\ outqueue' = Append(outqueue, nextJob)
            /\ UNCHANGED <<dirs, busy, fetched>>
       ELSE /\ dirs' = dirs \cup ParentDirs(work[nextJob].dest_path)
            /\ fetched' = fetched \cup {nextJob}
            /\ busy' = busy \cup {nextJob}
            /\ UNCHANGED <<result, outqueue>>
    /\ UNCHANGED <<inputVars, disk, pc, enumVars, work, status, consumed, runVars>>

\* download_job, lines 118-124: the response arrives; not found is reported
\* as (job, False), any other failure raises, a success is written to
\* dest_path.  A worker the pool's termination leaves behind may still get
\* here before the process ends.
FinishJob(i) ==
    /\ pc \in {"exec", "aborted"}
    /\ i \in busy
    /\ \E st \in CdnStatuses :
          /\ status' = [status EXCEPT ![i] = st]
          /\ IF IsNotFound(st)
             THEN /\ result' = [result EXCEPT ![i] = "notok"]
                  /\ disk' = disk
             ELSE IF RaisesForStatus(st)
             THEN /\ result' = [result EXCEPT ![i] = "raised"]
                  /\ disk' = disk
             ELSE /\ result' = [result EXCEPT ![i] = "ok"]
                  /\ disk' = WriteFile(disk, work[i].dest_path,
                                       Payload(work[i].source_url))
          /\ outqueue' = Append(outqueue, i)
    /\ busy' = busy \ {i}
    /\ UNCHANGED <<inputVars, dirs, pc, enumVars, work, nextJob, fetched, consumed,
                   runVars>>

\* another process (a second copy of the program, say) puts a file where a
\* job of the work set that has not been started would write: the case
\* download_job's re-check of job.done is there for
OtherProcessWrites ==
    /\ pc = "exec"
    /\ \E i \in nextJob..Len(work) :
          /\ ~IsFile(disk, work[i].dest_path)
          /\ disk' = WriteFile(disk, work[i].dest_path, OtherContent)
          /\ dirs' = dirs \cup ParentDirs(work[i].dest_path)
    /\ UNCHANGED <<inputVars, pc, enumVars, work, poolVars, runVars>>

\* lines 194-199: main()'s for loop takes the next result; a task that raised
\* re-raises here, the with block terminates the pool and the exception
\* leaves main(); after the last result the pool is closed and main() returns
NextResult ==
    /\ pc = "exec"
    /\ outqueue # <<>>
    /\ outqueue' = Tail(outqueue)
    /\ IF result[Head(outqueue)] = "raised"
       THEN pc' = "aborted" /\ consumed' = consumed
       ELSE /\ consumed' = consumed + 1
            /\ pc' = IF consumed' = Len(work) THEN "done" ELSE "exec"
    /\ UNCHANGED <<inputVars, fsVars, enumVars, work, nextJob, busy, fetched,
                   status, result, runVars>>

\* the exception has left main(): the process ends, and with it the pool's
\* daemon threads
Crash ==
    /\ pc = "aborted"
    /\ pc' = "crashed"
    /\ UNCHANGED <<inputVars, fsVars, enumVars, work, poolVars, runVars>>

\* the ways a run of main() ends: it returns, the command line or the
\* environment is refused, a request of the enumeration fails, a fetch fails
Ended == {"done", "usage_error", "enum_failed", "crashed"}

\* the run has ended; main() is run again with the same command line and
\* environment, against the same remote guilds and the directory as it is
Rerun ==
    /\ pc \in Ended
    /\ ~rerun
    /\ rerun' = TRUE
    /\ prev' = [ended |-> pc,
                files |-> DOMAIN disk,
                notfound |-> \E i \in 1..Len(work) : result[i] = "notok",
                fetches |-> Cardinality(fetched)]
    /\ disk0' = DOMAIN disk
    /\ pc' = "start"
    /\ listed' = FALSE
    /\ todo' = <<>>
    /\ jobs' = <<>>
    /\ work' = <<>>
    /\ nextJob' = 1
    /\ busy' = {}
    /\ fetched' = {}
    /\ status' = <<>>
    /\ result' = <<>>
    /\ outqueue' = <<>>
    /\ consumed' = 0
    /\ reqLog' = <<>>
    /\ reqUrls' = <<>>
    /\ UNCHANGED <<inputVars, fsVars>>

Next ==
    \/ ParseArgs
    \/ ListMyGuilds
    \/ FetchMyGuild
    \/ FetchGuildById
    \/ FetchEmojiSource
    \/ Filter
    \/ StartJob
    \/ \E i \in busy : FinishJob(i)
    \/ NextResult
    \/ OtherProcessWrites
    \/ Crash
    \/ Rerun

Spec == Init /\ [][Next]_vars

(***************************************************************************)
(* One run of main() with --my-guilds and the token set, under fair        *)
(* scheduling: a worker thread that is idle takes the next task, a fetch   *)
(* that has been issued returns, and main()'s for loop takes a result that *)
(* is in the queue.  Nothing is assumed of the API and of other processes. *)
(***************************************************************************)
InitRun ==
    /\ Init
    /\ args = [my_guilds |-> TRUE, guild_ids |-> None, source_emoji_ids |-> None]
    /\ token = "t0k3n"

NextRun ==
    \/ ParseArgs
    \/ ListMyGuilds
    \/ FetchMyGuild
    \/ Filter
    \/ StartJob
    \/ \E i \in busy : FinishJob(i)
    \/ NextResult
    \/ OtherProcessWrites
    \/ Crash

FairSpec ==
    /\ InitRun
    /\ [][NextRun]_vars
    /\ WF_vars(StartJob)
    /\ WF_vars(\E i \in busy : FinishJob(i))
    /\ WF_vars(NextResult)

(***************************************************************************)
(* get_downloads_from_guild_info on its own: main()'s loop body for one    *)
(* guild record, drawn from the records a guild endpoint can answer with.  *)
(* The record has up to MaxAssets emojis and up to MaxAssets stickers, and *)
(* either key may be missing.                                              *)
(***************************************************************************)
MaxAssets == 2

\* the sequences of at most n elements of S
SeqsUpTo(S, n) == UNION { [1..k -> S] : k \in 0..n }

\* the emoji objects of a guild record
EmojiDescriptors ==
    [id : {11, 12}, name : {<<"a">>, <<"b", "!">>}, animated : BOOLEAN]

\* the sticker objects of a guild record
StickerDescriptors == [id : {22, 23}, name : {<<"s", ":">>}]

\* what guild.get(key, []) can find: no such key, or a list
OptionalLists(S) == {None} \cup {<<list>> : list \in SeqsUpTo(S, MaxAssets)}

\* the guild record with the name and, where given, the two lists
GuildRecord(name, emojis, stickers) ==
    [key \in {"id", "name"} \cup (IF emojis = None THEN {} ELSE {"emojis"})
                            \cup (IF stickers = None THEN {} ELSE {"stickers"}) |->
        CASE key = "id" -> 1
          [] key = "name" -> name
          [] key = "emojis" -> emojis[1]
          [] OTHER -> stickers[1]]

GuildRecords ==
    { GuildRecord(GuildDetail(g).name, emojis, stickers) :
        g \in GuildIds,
        emojis \in OptionalLists(EmojiDescriptors),
        stickers \in OptionalLists(StickerDescriptors) }

\* main() is at the loop body, for the one guild of todo, in an empty directory
InitLoopBody(guilds) ==
    /\ args = [my_guilds |-> FALSE, guild_ids |-> <<1>>, source_emoji_ids |-> None]
    /\ token = "t0k3n"
    /\ disk = <<>>
    /\ dirs = {}
    /\ disk0 = {}
    /\ pc = "build"
    /\ listed = FALSE
    /\ \E guild \in guilds : todo = <<guild>>
    /\ jobs = <<>>
    /\ work = <<>>
    /\ nextJob = 1
    /\ busy = {}
    /\ fetched = {}
    /\ status = <<>>
    /\ result = <<>>
    /\ outqueue = <<>>
    /\ consumed = 0
    /\ reqLog = <<>>
    /\ reqUrls = <<>>
    /\ rerun = FALSE
    /\ prev = NoPrev

InitBuild == InitLoopBody(GuildRecords)

\* jobs.extend(get_downloads_from_guild_info(root_path, guild))
BuildOne ==
    /\ pc = "build"
    /\ BuildJobs(todo[1])
    /\ pc' = "built"
    /\ UNCHANGED <<inputVars, listed, todo, reqLog, reqUrls, work, poolVars, runVars>>

SpecBuild == InitBuild /\ [][BuildOne]_vars

(***************************************************************************)
(* clean_name_for_fs, as the loop body applies it to guild["name"]: the    *)
(* guild record has any name of at most MaxNameLen characters, taken from  *)
(* a letter, a digit, the three characters kept besides, a character that  *)
(* is dropped and a whitespace character other than the space.             *)
(***************************************************************************)
MaxNameLen == 4

NameChars == {"a", "1", " ", "_", "-", "/", "\t"}

NamedGuilds ==
    { GuildRecord(name, None, None) : name \in SeqsUpTo(NameChars, MaxNameLen) }

InitClean == InitLoopBody(NamedGuilds)

SpecClean == InitClean /\ [][BuildOne]_vars

(***************************************************************************)
(* What the claims speak of.                                               *)
(***************************************************************************)
Tasks == 1..Len(work)

\* the download_job calls that have issued their fetch and have no response yet
InFlight == {i \in fetched : status[i] = 0}

\* the fetch of task i returned, with a success status
FetchSucceeded(i) == status[i] >= 200 /\ status[i] < 300

\* the fetch of task i returned not found
FetchNotFound(i) == status[i] = 404

\* the fetch of task i returned a failure other than not found
FetchFatal(i) == status[i] # 0 /\ ~FetchSucceeded(i) /\ ~FetchNotFound(i)

\* the dedup filter has run in this run
Filtered == pc \in {"exec", "aborted", "crashed", "done"}

\* s is t with some elements left out, the others in their order
RECURSIVE IsSubseq(_, _)
IsSubseq(s, t) ==
    IF s = <<>> THEN TRUE
    ELSE IF t = <<>> THEN FALSE
    ELSE IF Head(s) = Head(t) THEN IsSubseq(Tail(s), Tail(t))
    ELSE IsSubseq(s, Tail(t))

(***************************************************************************)
(* C1. Concurrency bound: at no time are more than PoolSize (3) fetches    *)
(* of download_job issued and not yet answered.                            *)
(***************************************************************************)
C1_ConcurrencyBound == Cardinality(InFlight) <= PoolSize

\* three fetches are in flight while a further job waits for a worker
C1_Witness ==
    /\ pc = "exec"
    /\ Cardinality(InFlight) = PoolSize
    /\ nextJob <= Len(work)

(***************************************************************************)
(* C2. Soft-failure isolation: while exactly one job's fetch has returned  *)
(* not found and no other fetch has failed, the run is not aborted and the *)
(* not-found job's call returned (job, False); when such a run ends, main  *)
(* has consumed every result and every other job reported ok and has its   *)
(* dest_path on disk.                                                      *)
(***************************************************************************)
C2_SoftFailureIsolation ==
    LET nf == {i \in Tasks : FetchNotFound(i)} IN
    (Cardinality(nf) = 1 /\ \A i \in Tasks \ nf : status[i] = 0 \/ FetchSucceeded(i))
    => /\ pc \notin {"aborted", "crashed"}
       /\ \A i \in nf : result[i] = "notok"
       /\ pc = "done" =>
            /\ consumed = Len(work)
            /\ \A i \in Tasks \ nf : result[i] = "ok" /\ IsFile(disk, work[i].dest_path)

\* a finished run of four fetches, one not found and three successful
C2_Witness ==
    /\ pc = "done"
    /\ Cardinality(fetched) = 4
    /\ Cardinality({i \in Tasks : FetchNotFound(i)}) = 1
    /\ Cardinality({i \in Tasks : FetchSucceeded(i)}) = 3

(***************************************************************************)
(* C3. One-and-done: once some job's fetch has returned a failure other    *)
(* than not found, no job that has not been started is started.            *)
(***************************************************************************)
C3_NoStartAfterFatal ==
    [][(\E i \in Tasks : FetchFatal(i)) => nextJob' = nextJob /\ fetched' = fetched]_vars

(***************************************************************************)
(* C4. No step of a run removes a file: a file that exists, from before    *)
(* the run or written by a job, exists in every later state, also after a  *)
(* fatal fetch failure has ended the batch.                                *)
(***************************************************************************)
C4_FilesAreKept == [][\A path \in DOMAIN disk : path \in DOMAIN disk']_vars

\* the batch ended on a fatal failure; a file from before the run and a file
\* a job of this run wrote are both on disk
C4_Witness ==
    /\ pc = "crashed"
    /\ \E path \in disk0 : IsFile(disk, path)
    /\ \E i \in Tasks : FetchSucceeded(i) /\ disk[work[i].dest_path] = Payload(work[i].source_url)

(***************************************************************************)
(* C5 as stated. Idempotence: after a first run that returned, the second  *)
(* run issues no asset fetch, its filtered work set is empty, and it ends  *)
(* with the files the first run ended with.                                *)
(***************************************************************************)
C5_SecondRunFetchesNothing ==
    (rerun /\ prev.ended = "done")
    => /\ fetched = {}
       /\ work = <<>>
       /\ pc = "done" => DOMAIN disk = prev.files

(***************************************************************************)
(* C5 as amended. The second run fetches only for jobs whose dest_path was *)
(* still missing when the first run ended; if the first run returned and   *)
(* none of its fetches returned not found, the second run issues no asset  *)
(* fetch, its filtered work set is empty and the files on disk stay those  *)
(* the first run ended with.                                               *)
(***************************************************************************)
C5_IdempotentUnlessNotFound ==
    rerun => /\ \A i \in fetched : work[i].dest_path \notin prev.files
             /\ (prev.ended = "done" /\ ~prev.notfound)
                => /\ fetched = {}
                   /\ work = <<>>
                   /\ DOMAIN disk = prev.files

\* the second run has ended after a first run that fetched three assets, none
\* of them not found
C5_Witness ==
    /\ rerun
    /\ pc = "done"
    /\ prev.ended = "done"
    /\ ~prev.notfound
    /\ prev.fetches >= 3
    /\ Len(jobs) >= 3

(***************************************************************************)
(* C6. Dedup correctness: the filter step makes the work set exactly the   *)
(* accumulated jobs whose dest_path is no file at that moment, in their    *)
(* order; a job whose dest_path was a file before the run is not in the    *)
(* work set and no fetch is issued for it.                                 *)
(***************************************************************************)
C6_FilterStep ==
    (pc = "enum" /\ pc' # "enum" /\ pc' # "enum_failed")
    => /\ IsSubseq(work', jobs)
       /\ \A k \in 1..Len(work') : ~IsFile(disk, work'[k].dest_path)
       /\ Len(work') = Cardinality({i \in 1..Len(jobs) : ~IsFile(disk, jobs[i].dest_path)})

C6_PreExistingExcluded ==
    Filtered => /\ IsSubseq(work, jobs)
                /\ \A i \in 1..Len(jobs) :
                      jobs[i].dest_path \in disk0 => \A k \in Tasks : work[k] # jobs[i]
                /\ \A k \in fetched : work[k].dest_path \notin disk0

C6_DedupCorrect == [][C6_FilterStep]_vars /\ []C6_PreExistingExcluded

\* a finished run whose filter left out a job that was on disk and kept
\* others, which were fetched
C6_Witness ==
    /\ pc = "done"
    /\ \E i \in 1..Len(jobs) : jobs[i].dest_path \in disk0
    /\ Len(work) >= 2
    /\ Cardinality(fetched) >= 2

(***************************************************************************)
(* C7. The re-check: a download_job call that begins while its dest_path   *)
(* is a file returns (job, True) without issuing a fetch and without       *)
(* writing; a call that returned without a fetch returned (job, True).     *)
(***************************************************************************)
C7_StartStep ==
    (pc = "exec" /\ nextJob' = nextJob + 1 /\ IsFile(disk, work[nextJob].dest_path))
    => /\ fetched' = fetched
       /\ status' = status
       /\ disk' = disk
       /\ result'[nextJob] = "ok"

C7_ReturnedWithoutFetch ==
    \A i \in Tasks : (i \notin fetched /\ result[i] # "none") => result[i] = "ok"

C7_RecheckSkips == [][C7_StartStep]_vars /\ []C7_ReturnedWithoutFetch

\* two jobs of the work set were found done when their calls began: for one
\* a sibling with the same dest_path had written the file, for the other
\* another process had
C7_Witness ==
    /\ \E i \in Tasks :
          /\ i < nextJob /\ i \notin fetched /\ result[i] = "ok"
          /\ \E k \in fetched : /\ k # i /\ FetchSucceeded(k)
                                 /\ work[k].dest_path = work[i].dest_path
                                 /\ disk[work[i].dest_path] = Payload(work[k].source_url)
    /\ \E i \in Tasks :
          /\ i < nextJob /\ i \notin fetched /\ result[i] = "ok"
          /\ disk[work[i].dest_path] = OtherContent

(***************************************************************************)
(* C8. Enumeration failure: a request of the enumeration that returns a    *)
(* non-success status is the run's last request; the run has failed there, *)
(* the filter does not run and no asset fetch is issued.                   *)
(***************************************************************************)
C8_EnumerationFailureAborts ==
    /\ \A k \in 1..(Len(reqLog) - 1) : reqLog[k] >= 200 /\ reqLog[k] < 300
    /\ (\E k \in 1..Len(reqLog) : ~(reqLog[k] >= 200 /\ reqLog[k] < 300))
       => /\ pc = "enum_failed"
          /\ work = <<>>
          /\ nextJob = 1
          /\ fetched = {}

\* the third request of a run failed, after a guild's jobs had been built,
\* one of them not on disk
C8_Witness ==
    /\ Len(reqLog) = 3
    /\ ~(reqLog[3] >= 200 /\ reqLog[3] < 300)
    /\ \E i \in 1..Len(jobs) : ~IsFile(disk, jobs[i].dest_path)

(***************************************************************************)
(* C9. Unique destinations: no two jobs of the accumulated job list have   *)
(* the same dest_path.                                                     *)
(***************************************************************************)
C9_UniqueDestPaths ==
    \A i, k \in 1..Len(jobs) : i # k => jobs[i].dest_path # jobs[k].dest_path

(***************************************************************************)
(* C10. Exactly one selector: a run whose command line supplies no         *)
(* selector, or more than one, ends in a usage error before any request.   *)
(***************************************************************************)
C10_ExactlyOneSelector ==
    SelectorCount(args) # 1 => pc \in {"start", "usage_error"} /\ reqLog = <<>>

(***************************************************************************)
(* C11. The token is required: with DISCORD_USER_TOKEN unset or empty the  *)
(* run ends in a usage error, whichever selectors the command line gives;  *)
(* it issues no request, makes no directory and writes no file.            *)
(***************************************************************************)
C11_TokenRequired ==
    token \in {NoEnv, ""} =>
        /\ pc \in {"start", "usage_error"}
        /\ reqLog = <<>>
        /\ fetched = {}
        /\ disk = [path \in disk0 |-> OldContent]
        /\ dirs = UNION { ParentDirs(path) : path \in disk0 }

\* a run with an empty token and --my-guilds has ended in the usage error
C11_Witness ==
    /\ token = ""
    /\ args.my_guilds
    /\ SelectorCount(args) = 1
    /\ pc = "usage_error"

(***************************************************************************)
(* C12. The jobs of a guild record with E emojis and S stickers (either    *)
(* key possibly missing, either list possibly empty): E + S jobs; first    *)
(* the emojis' in their order, each under <guild dir>/emojis with the      *)
(* extension gif if animated and png if not, the extension of its          *)
(* source_url; then the stickers' in their order, each under               *)
(* <guild dir>/stickers with the extension png.                            *)
(***************************************************************************)
C12_JobsOfGuildRecord ==
    pc = "built" =>
        LET guild == todo[1]
            emojis == IF "emojis" \in DOMAIN guild THEN guild.emojis ELSE <<>>
            stickers == IF "stickers" \in DOMAIN guild THEN guild.stickers ELSE <<>>
            E == Len(emojis)
            S == Len(stickers)
        IN  /\ Len(jobs) = E + S
            /\ \A i \in 1..E :
                  /\ jobs[i].dest_path.dir = GuildPath(guild)
                  /\ jobs[i].dest_path.sub = "emojis"
                  /\ jobs[i].dest_path.ext = (IF emojis[i].animated THEN "gif" ELSE "png")
                  /\ jobs[i].source_url.ext = jobs[i].dest_path.ext
                  /\ jobs[i].source_url.dir = "emojis"
                  /\ jobs[i].source_url.id = emojis[i].id
            /\ \A i \in 1..S :
                  /\ jobs[E + i].dest_path.dir = GuildPath(guild)
                  /\ jobs[E + i].dest_path.sub = "stickers"
                  /\ jobs[E + i].dest_path.ext = "png"
                  /\ jobs[E + i].source_url.dir = "stickers"
                  /\ jobs[E + i].source_url.id = stickers[i].id

\* the jobs of a record with an animated emoji, then a static one, and one sticker
C12_Witness ==
    /\ pc = "built"
    /\ "emojis" \in DOMAIN todo[1]
    /\ "stickers" \in DOMAIN todo[1]
    /\ Len(todo[1].emojis) = 2
    /\ todo[1].emojis[1].animated
    /\ ~todo[1].emojis[2].animated
    /\ Len(todo[1].stickers) = 1
    /\ Len(jobs) = 3

(***************************************************************************)
(* C13. clean_name_for_fs(name) is what is left of the characters of name  *)
(* that are alphanumeric, space, underscore or hyphen, in their order,     *)
(* once the whitespace at both ends is taken off; it holds no other        *)
(* character, and cleaning it again gives it back.  The result is read off *)
(* the guild directory the loop body makes for a guild of that name.       *)
(***************************************************************************)
C13_Kept == {"a", "1", " ", "_", "-"}

C13_White == {" ", "\t"}

C13_CleanName ==
    pc = "built" =>
        /\ dirs # {}
        /\ \A d \in dirs :
              LET cleaned == d.dir
                  kept == SelectSeq(todo[1].name, LAMBDA c : c \in C13_Kept)
              IN  /\ \E a \in 0..Len(kept) :
                        /\ a + Len(cleaned) <= Len(kept)
                        /\ cleaned = SubSeq(kept, a + 1, a + Len(cleaned))
                        /\ \A k \in 1..a : kept[k] \in C13_White
                        /\ \A k \in (a + Len(cleaned) + 1)..Len(kept) :
                              kept[k] \in C13_White
                  /\ cleaned # <<>> =>
                        /\ cleaned[1] \notin C13_White
                        /\ cleaned[Len(cleaned)] \notin C13_White
                  /\ \A k \in 1..Len(cleaned) : cleaned[k] \in C13_Kept
                  /\ clean_name_for_fs(cleaned) = cleaned

\* the name " a/ " has been cleaned to "a": a dropped character, and spaces
\* at both ends of what is kept
C13_Witness ==
    /\ pc = "built"
    /\ todo[1].name = <<" ", "a", "/", " ">>
    /\ dirs = {[dir |-> <<"a">>, sub |-> ""]}

(***************************************************************************)
(* C14. --my-guilds: the first request of a run is the membership list,    *)
(* and it is the only one for the list; the requests after it are the      *)
(* detail requests of the listed guilds, in the order of the list; the     *)
(* record yielded for a guild, as info.json holds it, has the keys of the  *)
(* summary and of the detail, with the detail's value where both have the  *)
(* key.                                                                    *)
(***************************************************************************)
C14_MyGuildsEnumeration ==
    args.my_guilds =>
        /\ Len(reqUrls) <= 1 + Len(MyGuilds)
        /\ \A k \in 1..Len(reqUrls) :
              reqUrls[k] = IF k = 1 THEN MyGuildsUrl ELSE GuildUrl(MyGuilds[k - 1].id)
        /\ \A k \in 2..Len(reqLog) :
              (reqLog[k] >= 200 /\ reqLog[k] < 300) =>
                  LET summary == MyGuilds[k - 1]
                      detail == GuildDetail(summary.id)
                  IN  \E path \in DOMAIN disk :
                         /\ disk[path].kind = "json"
                         /\ disk[path].of.id = summary.id
                         /\ DOMAIN disk[path].of = (DOMAIN summary) \cup (DOMAIN detail)
                         /\ \A key \in DOMAIN disk[path].of :
                               disk[path].of[key] = IF key \in DOMAIN detail
                                                    THEN detail[key]
                                                    ELSE summary[key]

\* the list and both details have been fetched; the record of guild 1 has
\* the summary's "owner", the detail's "emojis" and the detail's name, not
\* the summary's
C14_Witness ==
    /\ args.my_guilds
    /\ pc = "enum"
    /\ Len(reqUrls) = 3
    /\ todo = <<>>
    /\ MyGuilds[1].name # GuildDetail(1).name
    /\ \E path \in DOMAIN disk :
          /\ disk[path].kind = "json"
          /\ disk[path].of.id = 1
          /\ "owner" \in DOMAIN disk[path].of
          /\ "emojis" \in DOMAIN disk[path].of
          /\ disk[path].of.name = GuildDetail(1).name

(***************************************************************************)
(* C15. info.json is written before the pool works: while main() is at the *)
(* enumeration no worker has started a job; when the pool is at work the   *)
(* info.json of every job's guild is on disk; and from the filter on, a    *)
(* run issues no enumeration request and writes no info.json.              *)
(***************************************************************************)
C15_BeforeThePool ==
    /\ pc \in {"start", "enum"} => nextJob = 1 /\ busy = {} /\ fetched = {}
    /\ pc = "exec" =>
          \A i \in Tasks :
             /\ IsFile(disk, InfoPath(work[i].dest_path.dir))
             /\ disk[InfoPath(work[i].dest_path.dir)].kind = "json"

C15_PoolStep ==
    (Filtered /\ pc' # "start") =>
        /\ reqLog' = reqLog
        /\ reqUrls' = reqUrls
        /\ \A path \in DOMAIN disk' :
              path.ext = "json" => path \in DOMAIN disk /\ disk'[path] = disk[path]

C15_InfoBeforeExecution == []C15_BeforeThePool /\ [][C15_PoolStep]_vars

\* a --my-guilds run: both info.json are written, a worker is at a fetch
\* and main() has consumed a result
C15_Witness ==
    /\ args.my_guilds
    /\ pc = "exec"
    /\ Len(reqUrls) = 3
    /\ busy # {}
    /\ consumed > 0
    /\ Cardinality({path \in DOMAIN disk : path.ext = "json"}) = 2

(***************************************************************************)
(* C16. Termination: once the pool is at work, under fair scheduling       *)
(* either some fetch returns a failure other than not found, or the run    *)
(* comes to its end with download_job started once for every job of the    *)
(* work set, every call returned and every result consumed by main().      *)
(***************************************************************************)
C16_Terminated ==
    /\ pc = "done"
    /\ nextJob = Len(work) + 1
    /\ busy = {}
    /\ \A i \in Tasks : result[i] \in {"ok", "notok"}
    /\ consumed = Len(work)
    /\ outqueue = <<>>

C16_ExecutionTerminates ==
    (pc = "exec") ~> (C16_Terminated \/ \E i \in Tasks : FetchFatal(i))

\* a run of four jobs has ended: three fetches were issued, one returned not
\* found, and one job found its file written by its sibling
C16_Witness ==
    /\ C16_Terminated
    /\ Len(work) = 4
    /\ Cardinality(fetched) = 3
    /\ \E i \in Tasks : FetchNotFound(i)
    /\ \A i \in Tasks : ~FetchFatal(i)

(***************************************************************************)
(* C17. Two jobs of the work set with the same dest_path: the re-check of  *)
(* job.done does not keep them apart.  Each of them whose fetch returns a  *)
(* success writes its payload to dest_path, whatever is there; and once    *)
(* the fetches of both have succeeded, both calls have returned            *)
(* (job, True) and dest_path is a file, holding the payload of a           *)
(* successful fetch of a job with that dest_path.  (That both can get to   *)
(* fetch and write is the reachable state C17_Witness.)                    *)
(***************************************************************************)
C17_SameDest(i, k) == i # k /\ work[i].dest_path = work[k].dest_path

C17_WriteStep ==
    \A i, k \in Tasks :
        (/\ C17_SameDest(i, k)
         /\ i \in DOMAIN status'
         /\ status[i] = 0
         /\ status'[i] >= 200 /\ status'[i] < 300)
        => disk'[work[i].dest_path] = Payload(work[i].source_url)

C17_BothOk ==
    \A i, k \in Tasks :
        (C17_SameDest(i, k) /\ FetchSucceeded(i) /\ FetchSucceeded(k))
        => /\ result[i] = "ok"
           /\ result[k] = "ok"
           /\ IsFile(disk, work[i].dest_path)
           /\ \E j \in Tasks :
                 /\ work[j].dest_path = work[i].dest_path
                 /\ FetchSucceeded(j)
                 /\ disk[work[i].dest_path] = Payload(work[j].source_url)

C17_CollidingJobs == [][C17_WriteStep]_vars /\ []C17_BothOk

\* both jobs passed the re-check and issued their fetch, both fetches
\* succeeded, the later job's fetch returned first, and the run has ended
\* with the earlier job's payload in the file
C17_Witness ==
    /\ pc = "done"
    /\ \E i, k \in Tasks :
          /\ C17_SameDest(i, k)
          /\ i < k
          /\ {i, k} \subseteq fetched
          /\ FetchSucceeded(i) /\ FetchSucceeded(k)
          /\ work[i].source_url # work[k].source_url
          /\ disk[work[i].dest_path] = Payload(work[i].source_url)

(***************************************************************************)
(* C18. What download_job writes: a step of the run creates or changes an  *)
(* asset file only as the write of a download_job call whose own fetch has *)
(* just returned a success, and the file then holds that fetch's payload   *)
(* (a file another process puts there is not of the run); a call whose     *)
(* fetch returns not found or another failure leaves every file as it is;  *)
(* so every asset file the run has created is the payload of a successful  *)
(* fetch of a job with that dest_path.                                     *)
(***************************************************************************)
C18_WrittenBy(i, path) ==
    /\ work[i].dest_path = path
    /\ i \in busy
    /\ i \in DOMAIN status'
    /\ status[i] = 0
    /\ status'[i] >= 200 /\ status'[i] < 300
    /\ disk'[path] = Payload(work[i].source_url)

C18_WriteStep ==
    /\ \A path \in DOMAIN disk' :
          (/\ path.ext # "json"
           /\ path \notin DOMAIN disk \/ disk'[path] # disk[path]
           /\ disk'[path] # OtherContent)
          => \E i \in Tasks : C18_WrittenBy(i, path)
    /\ \A i \in Tasks :
          (/\ i \in DOMAIN status'
           /\ status[i] = 0
           /\ status'[i] # 0
           /\ ~(status'[i] >= 200 /\ status'[i] < 300))
          => disk' = disk

C18_CreatedFiles ==
    \A path \in DOMAIN disk :
        (path \notin disk0 /\ path.ext # "json" /\ disk[path] # OtherContent)
        => \E i \in Tasks :
              /\ work[i].dest_path = path
              /\ FetchSucceeded(i)
              /\ disk[path] = Payload(work[i].source_url)

====
